---- MODULE Spec2Model ----
(***************************************************************************)
(* Pixel <-> angle/tangent conversions of image-to-body-math (namespace    *)
(* p2b).  A caller makes calls to the six conversion functions; the state  *)
(* records the latest call (its arguments and what it returned) and, when  *)
(* the call reused the arguments or the result of the call before it, that *)
(* earlier call.                                                           *)
(* A second specification, SpecThreads, has several threads call the       *)
(* functions on objects they share by const reference.                     *)
(*                                                                         *)
(* A double is modelled exactly: a finite value is a reduced fraction n/d  *)
(* with d > 0, and the three non-finite values are +inf = 1/0,             *)
(* -inf = -1/0 and NaN = 0/0.  A uint64_t is carry * 2^64 + low, which     *)
(* keeps the value of a wrapped conversion exact.                          *)
(***************************************************************************)
EXTENDS Integers, FiniteSets, Sequences, TLC

VARIABLES call, origin, shared, given, threads

\* What the single caller keeps, and what concurrent callers share.
caller_vars == <<call, origin>>

thread_vars == <<shared, given, threads>>

vars == <<call, origin, shared, given, threads>>

(* ------------------------------ bounds -------------------------------- *)

MaxWidth == 4

MaxHeight == 1

MaxNum == 2

MaxDen == 2

\* Concurrent callers, and the widest image they share.
NumThreads == 2

MaxSharedWidth == 2

(* --------------------------- double values ---------------------------- *)

Sign(n) == IF n > 0 THEN 1 ELSE IF n < 0 THEN -1 ELSE 0

AbsInt(n) == IF n < 0 THEN -n ELSE n

RECURSIVE GCD(_, _)
GCD(a, b) == IF b = 0 THEN a ELSE GCD(b, a % b)

\* The double n/d, reduced; d = 0 gives +inf, -inf or NaN by the sign of n.
Frac(n, d) ==
    IF d = 0 THEN [n |-> Sign(n), d |-> 0]
    ELSE LET g == GCD(AbsInt(n), AbsInt(d))
             s == Sign(d)
         IN  [n |-> (s * n) \div g, d |-> (s * d) \div g]

Zero == [n |-> 0, d |-> 1]

One == [n |-> 1, d |-> 1]

Two == [n |-> 2, d |-> 1]

NaN == [n |-> 0, d |-> 0]

IsNaN(a) == a.d = 0 /\ a.n = 0

IsFinite(a) == a.d # 0

Neg(a) == [n |-> -a.n, d |-> a.d]

Abs(a) == [n |-> AbsInt(a.n), d |-> a.d]

Add(a, b) ==
    IF IsNaN(a) \/ IsNaN(b) THEN NaN
    ELSE IF ~IsFinite(a) /\ ~IsFinite(b) THEN (IF a.n = b.n THEN a ELSE NaN)
    ELSE IF ~IsFinite(a) THEN a
    ELSE IF ~IsFinite(b) THEN b
    ELSE Frac(a.n * b.d + b.n * a.d, a.d * b.d)

Sub(a, b) == Add(a, Neg(b))

Mul(a, b) ==
    IF IsNaN(a) \/ IsNaN(b) THEN NaN
    ELSE IF ~IsFinite(a) \/ ~IsFinite(b)
         THEN (IF a.n = 0 \/ b.n = 0 THEN NaN
               ELSE [n |-> Sign(a.n) * Sign(b.n), d |-> 0])
    ELSE Frac(a.n * b.n, a.d * b.d)

Div(a, b) ==
    IF IsNaN(a) \/ IsNaN(b) THEN NaN
    ELSE IF ~IsFinite(a) /\ ~IsFinite(b) THEN NaN
    ELSE IF ~IsFinite(a) THEN [n |-> a.n * (IF b.n < 0 THEN -1 ELSE 1), d |-> 0]
    ELSE IF ~IsFinite(b) THEN Zero
    ELSE Frac(a.n * b.d, a.d * b.n)

\* a < b on doubles: false when either side is NaN.
Lt(a, b) ==
    IF IsNaN(a) \/ IsNaN(b) THEN FALSE
    ELSE IF ~IsFinite(a) THEN a.n < 0 /\ ~(~IsFinite(b) /\ b.n < 0)
    ELSE IF ~IsFinite(b) THEN b.n > 0
    ELSE a.n * b.d < b.n * a.d

\* std::round: the nearest integer, halves away from zero.
Round(a) ==
    IF ~IsFinite(a) THEN a
    ELSE Frac(Sign(a.n) * ((2 * AbsInt(a.n) + a.d) \div (2 * a.d)), 1)

\* The integer part of a finite double (what a float-to-integer cast keeps).
TruncInt(a) == Sign(a.n) * (AbsInt(a.n) \div a.d)

(* ------------------------------ uint64_t ------------------------------ *)

\* The uint64_t value carry * 2^64 + low.
U64(carry, low) == [carry |-> carry, low |-> low]

U64Of(n) == U64(0, n)

\* static_cast<double>(uint64_t), for the values a caller gives (below 2^31).
U64ToDouble(u) == CASE u.carry = 0 -> Frac(u.low, 1)

\* static_cast<uint64_t>(double).  The cast is defined when the truncated
\* value is representable.  Otherwise the behaviour is undefined, and the
\* result is whatever the build's conversion produces: a negative value
\* wraps modulo 2^64 or saturates to 0; a non-finite one saturates to 0 or
\* to 2^64 - 1.
CastU64(a) ==
    IF IsFinite(a)
    THEN LET t == TruncInt(a)
         IN  IF t >= 0 THEN {U64Of(t)} ELSE {U64(1, t), U64Of(0)}
    ELSE {U64Of(0), U64(1, -1)}

\* The implicit double -> int conversion at a call of a legacy function.
DoubleToInt(a) == CASE IsFinite(a) -> TruncInt(a)

(* ------------------------------- types -------------------------------- *)

ImageSize(width, height) == [width |-> U64Of(width), height |-> U64Of(height)]

\* Mutant: the width itself, not its half.
half_width_undivided(size) == U64ToDouble(size.width)

\* Mutant: an integer division, which drops the half of an odd width.
half_width_floor(size) == Frac(size.width.low \div 2, 1)

half_width(size) == Div(U64ToDouble(size.width), Two)

half_height(size) == Div(U64ToDouble(size.height), Two)

\* ImageSize{}: both counts are value-initialized.
DefaultImageSize == ImageSize(0, 0)

PixelIndex(value) == [value |-> value]

\* Mutant: the "- 1.0" is left out.
normalized_no_offset(pixel, size) ==
    Div(U64ToDouble(pixel.value), half_width(size))

\* Mutant: divides by the width, not by the half width.
normalized_by_width(pixel, size) ==
    Sub(Div(U64ToDouble(pixel.value), U64ToDouble(size.width)), One)

normalized(pixel, size) ==
    Sub(Div(U64ToDouble(pixel.value), half_width(size)), One)

(* ------------------------------- angles ------------------------------- *)

\* An angle is kept by what the code reads of it: Radians(v) holds the raw
\* value v; the angle atan(x) has tangent x; a field of view 2 * atan(x) has
\* the half angle atan(x).
Radians(v) == [kind |-> "value", x |-> v]

Atan(x) == [kind |-> "atan", x |-> x]

FovOfHalfTan(x) == [kind |-> "2atan", x |-> x]

AngleValue(a) == CASE a.kind = "value" -> a.x

HalfAngle(a) == CASE a.kind = "2atan" -> Atan(a.x)

Tan(a) == CASE a.kind = "atan" -> a.x

(* ------------------------ conversion functions ------------------------ *)

pixel_tan_from_fov(pixel, image_size, fov) ==
    LET norm == normalized(pixel, image_size)
        half_fov_tan == Tan(HalfAngle(fov))
    IN  Atan(Mul(norm, half_fov_tan))

\* Mutant: the "+ half_width" is left out.
tan_2_pixel_by_fov_no_offset(pixel_tan, image_size, fov) ==
    LET half_fov_tan == Tan(HalfAngle(fov))
        norm == Div(pixel_tan, half_fov_tan)
    IN  {PixelIndex(v) : v \in CastU64(Round(Mul(norm, half_width(image_size))))}

\* The pixels the call can return (one, unless the cast is undefined).
tan_2_pixel_by_fov(pixel_tan, image_size, fov) ==
    LET half_fov_tan == Tan(HalfAngle(fov))
        norm == Div(pixel_tan, half_fov_tan)
        hw == half_width(image_size)
    IN  {PixelIndex(v) : v \in CastU64(Round(Add(Mul(norm, hw), hw)))}

\* Mutant: the pixel is not taken relative to the center.
pixel_tan_by_pixel_2_tan_from_edge(pixel, image_size, pixel_2_tan) ==
    Mul(U64ToDouble(pixel.value), pixel_2_tan)

pixel_tan_by_pixel_2_tan(pixel, image_size, pixel_2_tan) ==
    Mul(Sub(U64ToDouble(pixel.value), half_width(image_size)), pixel_2_tan)

angle_tan_to_pixel(angle_tan, image_size, pixel_2_tan) ==
    {PixelIndex(v) : v \in CastU64(Round(
        Add(Div(AngleValue(angle_tan), pixel_2_tan), half_width(image_size))))}

\* Mutant: the std::abs is left out, so the distance is signed.
pixel_tan_by_pixel_2_tan_clipped_signed(pixel, image_size, pixel_2_tan, clipping_threshold) ==
    LET diff == Sub(U64ToDouble(pixel.value), half_width(image_size))
    IN  IF Lt(diff, Mul(clipping_threshold, half_width(image_size)))
        THEN Zero
        ELSE Mul(Sub(U64ToDouble(pixel.value), half_width(image_size)), pixel_2_tan)

\* Mutant: the dead zone includes its edge (<= for <).
pixel_tan_by_pixel_2_tan_clipped_inclusive(pixel, image_size, pixel_2_tan, clipping_threshold) ==
    LET diff == Abs(Sub(U64ToDouble(pixel.value), half_width(image_size)))
        edge == Mul(clipping_threshold, half_width(image_size))
    IN  IF Lt(diff, edge) \/ diff = edge
        THEN Zero
        ELSE Mul(Sub(U64ToDouble(pixel.value), half_width(image_size)), pixel_2_tan)

pixel_tan_by_pixel_2_tan_clipped(pixel, image_size, pixel_2_tan, clipping_threshold) ==
    LET diff == Abs(Sub(U64ToDouble(pixel.value), half_width(image_size)))
    IN  IF Lt(diff, Mul(clipping_threshold, half_width(image_size)))
        THEN Zero
        ELSE Mul(Sub(U64ToDouble(pixel.value), half_width(image_size)), pixel_2_tan)

\* Mutant: round_back is ignored, the value is always rounded.
tan_2_pixel_by_pixel_2_tan_always_rounds(pixel_tan, image_size, pixel_2_tan, round_back) ==
    LET pixel_v == Add(Div(AngleValue(pixel_tan), pixel_2_tan), half_width(image_size))
    IN  {PixelIndex(v) : v \in CastU64(Round(pixel_v))}

tan_2_pixel_by_pixel_2_tan(pixel_tan, image_size, pixel_2_tan, round_back) ==
    LET pixel_v == Add(Div(AngleValue(pixel_tan), pixel_2_tan), half_width(image_size))
    IN  {PixelIndex(v) : v \in (IF round_back THEN CastU64(Round(pixel_v))
                                              ELSE CastU64(pixel_v))}

\* The legacy reference of the tests.
pixel_tan_by_pixel_2_tan_old(pixel_i, half_image_size, pixel_2_tan) ==
    Mul(Sub(pixel_i, Frac(half_image_size, 1)), pixel_2_tan)

\* The six conversion functions, and what a call c (a function and its
\* arguments) can return.
Conversions ==
    {"pixel_tan_from_fov", "tan_2_pixel_by_fov", "pixel_tan_by_pixel_2_tan",
     "angle_tan_to_pixel", "pixel_tan_by_pixel_2_tan_clipped",
     "tan_2_pixel_by_pixel_2_tan"}

Returns(c) ==
    CASE c.fn = "pixel_tan_from_fov" ->
             {pixel_tan_from_fov(c.pixel, c.image_size, c.fov)}
      [] c.fn = "tan_2_pixel_by_fov" ->
             tan_2_pixel_by_fov(c.pixel_tan, c.image_size, c.fov)
      [] c.fn = "pixel_tan_by_pixel_2_tan" ->
             {pixel_tan_by_pixel_2_tan(c.pixel, c.image_size, c.pixel_2_tan)}
      [] c.fn = "angle_tan_to_pixel" ->
             angle_tan_to_pixel(c.angle_tan, c.image_size, c.pixel_2_tan)
      [] c.fn = "pixel_tan_by_pixel_2_tan_clipped" ->
             {pixel_tan_by_pixel_2_tan_clipped(c.pixel, c.image_size, c.pixel_2_tan,
                                               c.clipping_threshold)}
      [] c.fn = "tan_2_pixel_by_pixel_2_tan" ->
             tan_2_pixel_by_pixel_2_tan(c.pixel_tan, c.image_size, c.pixel_2_tan,
                                        c.round_back)

(* ------------------------------- inputs ------------------------------- *)

Scalars == {Frac(n, d) : n \in (-MaxNum)..MaxNum, d \in 1..MaxDen}

Sizes == {ImageSize(w, h) : w \in 0..MaxWidth, h \in 0..MaxHeight}

Pixels == {PixelIndex(U64Of(p)) : p \in 0..(MaxWidth + 1)}

Fovs == {FovOfHalfTan(x) : x \in Scalars}

NoCall == [fn |-> "none"]

\* The by-value arguments the concurrent callers pass.
TestPixelTan == Zero

TestPixel2Tan == Frac(1, 400)

TestClippingThreshold == Frac(1, 20)

\* The objects concurrent callers pass by const reference: one ImageSize,
\* one PixelIndex and an angle, held as a field of view and as a tangent.
SharedTans == {Neg(One), Zero, One}

SharedValues ==
    {[image_size |-> ImageSize(w, 0), pixel |-> PixelIndex(U64Of(p)),
      fov |-> FovOfHalfTan(x), angle_tan |-> Radians(x)] :
        w \in 0..MaxSharedWidth, p \in 0..MaxSharedWidth, x \in SharedTans}

DefaultShared ==
    [image_size |-> DefaultImageSize, pixel |-> PixelIndex(U64Of(0)),
     fov |-> FovOfHalfTan(Zero), angle_tan |-> Radians(Zero)]

Threads == 1..NumThreads

Idle == [pc |-> "idle"]

(* ------------------------------- state -------------------------------- *)

Init ==
    /\ call = NoCall
    /\ origin = NoCall
    /\ shared = DefaultShared
    /\ given = DefaultShared
    /\ threads = [t \in Threads |-> Idle]

CallPixelTanFromFov ==
    /\ call = NoCall
    /\ \E pixel \in Pixels, image_size \in Sizes, fov \in Fovs :
        /\ call' = [fn |-> "pixel_tan_from_fov", pixel |-> pixel,
                    image_size |-> image_size, fov |-> fov,
                    ret |-> pixel_tan_from_fov(pixel, image_size, fov)]
        /\ origin' = NoCall
    /\ UNCHANGED thread_vars

CallTan2PixelByFov ==
    /\ call = NoCall
    /\ \E pixel_tan \in Scalars, image_size \in Sizes, fov \in Fovs :
        \E r \in tan_2_pixel_by_fov(pixel_tan, image_size, fov) :
            /\ call' = [fn |-> "tan_2_pixel_by_fov", pixel_tan |-> pixel_tan,
                        image_size |-> image_size, fov |-> fov, ret |-> r]
            /\ origin' = NoCall
    /\ UNCHANGED thread_vars

CallPixelTanByPixel2Tan ==
    /\ call = NoCall
    /\ \E pixel \in Pixels, image_size \in Sizes, pixel_2_tan \in Scalars :
        /\ call' = [fn |-> "pixel_tan_by_pixel_2_tan", pixel |-> pixel,
                    image_size |-> image_size, pixel_2_tan |-> pixel_2_tan,
                    ret |-> pixel_tan_by_pixel_2_tan(pixel, image_size, pixel_2_tan)]
        /\ origin' = NoCall
    /\ UNCHANGED thread_vars

CallAngleTanToPixel ==
    /\ call = NoCall
    /\ \E t \in Scalars, image_size \in Sizes, pixel_2_tan \in Scalars :
        \E r \in angle_tan_to_pixel(Radians(t), image_size, pixel_2_tan) :
            /\ call' = [fn |-> "angle_tan_to_pixel", angle_tan |-> Radians(t),
                        image_size |-> image_size, pixel_2_tan |-> pixel_2_tan,
                        ret |-> r]
            /\ origin' = NoCall
    /\ UNCHANGED thread_vars

CallPixelTanByPixel2TanClipped ==
    /\ call = NoCall
    /\ \E pixel \in Pixels, image_size \in Sizes, pixel_2_tan \in Scalars,
       clipping_threshold \in Scalars :
        /\ call' = [fn |-> "pixel_tan_by_pixel_2_tan_clipped", pixel |-> pixel,
                    image_size |-> image_size, pixel_2_tan |-> pixel_2_tan,
                    clipping_threshold |-> clipping_threshold,
                    ret |-> pixel_tan_by_pixel_2_tan_clipped(
                                pixel, image_size, pixel_2_tan, clipping_threshold)]
        /\ origin' = NoCall
    /\ UNCHANGED thread_vars

CallTan2PixelByPixel2Tan ==
    /\ call = NoCall
    /\ \E t \in Scalars, image_size \in Sizes, pixel_2_tan \in Scalars,
       round_back \in BOOLEAN :
        \E r \in tan_2_pixel_by_pixel_2_tan(Radians(t), image_size, pixel_2_tan, round_back) :
            /\ call' = [fn |-> "tan_2_pixel_by_pixel_2_tan", pixel_tan |-> Radians(t),
                        image_size |-> image_size, pixel_2_tan |-> pixel_2_tan,
                        round_back |-> round_back, ret |-> r]
            /\ origin' = NoCall
    /\ UNCHANGED thread_vars

\* The caller feeds the tangent of the angle it got back into the inverse
\* function, with the same image size and field of view.
RoundTripFov ==
    /\ call.fn = "pixel_tan_from_fov"
    /\ \E r \in tan_2_pixel_by_fov(Tan(call.ret), call.image_size, call.fov) :
        /\ call' = [fn |-> "tan_2_pixel_by_fov", pixel_tan |-> Tan(call.ret),
                    image_size |-> call.image_size, fov |-> call.fov, ret |-> r]
        /\ origin' = call
    /\ UNCHANGED thread_vars

\* The caller asks for the pixel at the same distance on the other side of
\* the center, with the same image size and field of view.
MirrorPixelTanFromFov ==
    /\ call.fn = "pixel_tan_from_fov"
    /\ call.pixel.value.low <= call.image_size.width.low
    /\ LET pixel == PixelIndex(U64Of(call.image_size.width.low - call.pixel.value.low))
       IN  call' = [fn |-> "pixel_tan_from_fov", pixel |-> pixel,
                    image_size |-> call.image_size, fov |-> call.fov,
                    ret |-> pixel_tan_from_fov(pixel, call.image_size, call.fov)]
    /\ origin' = call
    /\ UNCHANGED thread_vars

\* The caller repeats an angle_tan_to_pixel call through
\* tan_2_pixel_by_pixel_2_tan with round_back = true.
RepeatRounded ==
    /\ call.fn = "angle_tan_to_pixel"
    /\ \E r \in tan_2_pixel_by_pixel_2_tan(call.angle_tan, call.image_size,
                                           call.pixel_2_tan, TRUE) :
        /\ call' = [fn |-> "tan_2_pixel_by_pixel_2_tan", pixel_tan |-> call.angle_tan,
                    image_size |-> call.image_size, pixel_2_tan |-> call.pixel_2_tan,
                    round_back |-> TRUE, ret |-> r]
        /\ origin' = call
    /\ UNCHANGED thread_vars

\* The tests' comparison: the legacy function on the same pixel, with
\* half_width() passed to its int parameter.
CompareLegacy ==
    /\ call.fn = "pixel_tan_by_pixel_2_tan"
    /\ LET pixel_i == U64ToDouble(call.pixel.value)
           half_image_size == DoubleToInt(half_width(call.image_size))
       IN  call' = [fn |-> "pixel_tan_by_pixel_2_tan_old", pixel_i |-> pixel_i,
                    half_image_size |-> half_image_size,
                    pixel_2_tan |-> call.pixel_2_tan,
                    ret |-> pixel_tan_by_pixel_2_tan_old(pixel_i, half_image_size,
                                                         call.pixel_2_tan)]
    /\ origin' = call
    /\ UNCHANGED thread_vars

CallNormalized ==
    /\ call = NoCall
    /\ \E pixel \in Pixels, image_size \in Sizes :
        /\ call' = [fn |-> "normalized", pixel |-> pixel, image_size |-> image_size,
                    ret |-> normalized(pixel, image_size)]
        /\ origin' = NoCall
    /\ UNCHANGED thread_vars

ConstructDefaultImageSize ==
    /\ call = NoCall
    /\ call' = [fn |-> "ImageSize", image_size |-> DefaultImageSize]
    /\ origin' = NoCall
    /\ UNCHANGED thread_vars

CallHalfWidth ==
    /\ \/ call = NoCall /\ origin' = NoCall
       \/ call.fn = "ImageSize" /\ origin' = call
    /\ \E image_size \in (IF call = NoCall THEN Sizes ELSE {call.image_size}) :
        call' = [fn |-> "half_width", image_size |-> image_size,
                 ret |-> half_width(image_size)]
    /\ UNCHANGED thread_vars

CallHalfHeight ==
    /\ \/ call = NoCall /\ origin' = NoCall
       \/ call.fn = "ImageSize" /\ origin' = call
    /\ \E image_size \in (IF call = NoCall THEN Sizes ELSE {call.image_size}) :
        call' = [fn |-> "half_height", image_size |-> image_size,
                 ret |-> half_height(image_size)]
    /\ UNCHANGED thread_vars

\* The caller turns the tangent it got back into a pixel again with
\* angle_tan_to_pixel, with the same image size and pixel_2_tan.
RoundTripAngleTanToPixel ==
    /\ call.fn = "pixel_tan_by_pixel_2_tan"
    /\ \E r \in angle_tan_to_pixel(Radians(call.ret), call.image_size, call.pixel_2_tan) :
        /\ call' = [fn |-> "angle_tan_to_pixel", angle_tan |-> Radians(call.ret),
                    image_size |-> call.image_size, pixel_2_tan |-> call.pixel_2_tan,
                    ret |-> r]
        /\ origin' = call
    /\ UNCHANGED thread_vars

\* The same through tan_2_pixel_by_pixel_2_tan, with either rounding policy.
RoundTripTan2PixelByPixel2Tan ==
    /\ call.fn = "pixel_tan_by_pixel_2_tan"
    /\ \E round_back \in BOOLEAN :
        \E r \in tan_2_pixel_by_pixel_2_tan(Radians(call.ret), call.image_size,
                                            call.pixel_2_tan, round_back) :
            /\ call' = [fn |-> "tan_2_pixel_by_pixel_2_tan",
                        pixel_tan |-> Radians(call.ret),
                        image_size |-> call.image_size,
                        pixel_2_tan |-> call.pixel_2_tan,
                        round_back |-> round_back, ret |-> r]
            /\ origin' = call
    /\ UNCHANGED thread_vars

\* The caller makes the latest call once more, with the same arguments.
RepeatCall ==
    /\ call.fn \in Conversions
    /\ \E r \in Returns(call) : call' = [call EXCEPT !.ret = r]
    /\ origin' = call
    /\ UNCHANGED thread_vars

\* The caller is done with the returned value (a value type: nothing is kept).
Discard ==
    /\ call # NoCall
    /\ call' = NoCall
    /\ origin' = NoCall
    /\ UNCHANGED thread_vars

Next ==
    \/ CallPixelTanFromFov
    \/ CallTan2PixelByFov
    \/ CallPixelTanByPixel2Tan
    \/ CallAngleTanToPixel
    \/ CallPixelTanByPixel2TanClipped
    \/ CallTan2PixelByPixel2Tan
    \/ RoundTripFov
    \/ MirrorPixelTanFromFov
    \/ RepeatRounded
    \/ CompareLegacy
    \/ CallNormalized
    \/ ConstructDefaultImageSize
    \/ CallHalfWidth
    \/ CallHalfHeight
    \/ RoundTripAngleTanToPixel
    \/ RoundTripTan2PixelByPixel2Tan
    \/ RepeatCall
    \/ Discard

Spec == Init /\ [][Next]_vars

(* ------------------------- concurrent callers ------------------------- *)

\* Threads call the conversion functions on the shared objects.  A call
\* binds its reference parameters, reads the object it uses first, then
\* reads the rest and computes what it returns.
InitThreads ==
    /\ call = NoCall
    /\ origin = NoCall
    /\ shared \in SharedValues
    /\ given = shared
    /\ threads = [t \in Threads |-> Idle]

\* The shared object a function reads first.
Operand(s, fn) ==
    CASE fn \in {"pixel_tan_from_fov", "pixel_tan_by_pixel_2_tan",
                 "pixel_tan_by_pixel_2_tan_clipped"} -> s.pixel
      [] fn = "tan_2_pixel_by_fov" -> s.fov
      [] fn \in {"angle_tan_to_pixel", "tan_2_pixel_by_pixel_2_tan"} -> s.angle_tan

\* The call of fn that has read operand and reads the rest from s.
JobOn(s, fn, round_back, operand) ==
    CASE fn = "pixel_tan_from_fov" ->
             [fn |-> fn, pixel |-> operand, image_size |-> s.image_size, fov |-> s.fov]
      [] fn = "tan_2_pixel_by_fov" ->
             [fn |-> fn, pixel_tan |-> TestPixelTan, image_size |-> s.image_size,
              fov |-> operand]
      [] fn = "pixel_tan_by_pixel_2_tan" ->
             [fn |-> fn, pixel |-> operand, image_size |-> s.image_size,
              pixel_2_tan |-> TestPixel2Tan]
      [] fn = "angle_tan_to_pixel" ->
             [fn |-> fn, angle_tan |-> operand, image_size |-> s.image_size,
              pixel_2_tan |-> TestPixel2Tan]
      [] fn = "pixel_tan_by_pixel_2_tan_clipped" ->
             [fn |-> fn, pixel |-> operand, image_size |-> s.image_size,
              pixel_2_tan |-> TestPixel2Tan,
              clipping_threshold |-> TestClippingThreshold]
      [] fn = "tan_2_pixel_by_pixel_2_tan" ->
             [fn |-> fn, pixel_tan |-> operand, image_size |-> s.image_size,
              pixel_2_tan |-> TestPixel2Tan, round_back |-> round_back]

ThreadEnter(t) ==
    /\ threads[t].pc = "idle"
    /\ \E fn \in Conversions :
        \E round_back \in (IF fn = "tan_2_pixel_by_pixel_2_tan" THEN BOOLEAN ELSE {FALSE}) :
            threads' = [threads EXCEPT ![t] =
                            [pc |-> "entered", fn |-> fn, round_back |-> round_back]]
    /\ UNCHANGED <<shared, given>>
    /\ UNCHANGED caller_vars

ThreadReadOperand(t) ==
    /\ threads[t].pc = "entered"
    /\ threads' = [threads EXCEPT ![t] =
                       [pc |-> "operand_read", fn |-> threads[t].fn,
                        round_back |-> threads[t].round_back,
                        operand |-> Operand(shared, threads[t].fn)]]
    /\ UNCHANGED <<shared, given>>
    /\ UNCHANGED caller_vars

\* A callee that clears the image size it was handed.
ThreadReturn_clears_size(t) ==
    /\ threads[t].pc = "operand_read"
    /\ \E r \in Returns(JobOn(shared, threads[t].fn, threads[t].round_back,
                              threads[t].operand)) :
        threads' = [threads EXCEPT ![t] =
                        [pc |-> "returned", fn |-> threads[t].fn,
                         round_back |-> threads[t].round_back, ret |-> r]]
    /\ shared' = [shared EXCEPT !.image_size = DefaultImageSize]
    /\ UNCHANGED given
    /\ UNCHANGED caller_vars

ThreadReturn(t) ==
    /\ threads[t].pc = "operand_read"
    /\ \E r \in Returns(JobOn(shared, threads[t].fn, threads[t].round_back,
                              threads[t].operand)) :
        threads' = [threads EXCEPT ![t] =
                        [pc |-> "returned", fn |-> threads[t].fn,
                         round_back |-> threads[t].round_back, ret |-> r]]
    /\ UNCHANGED <<shared, given>>
    /\ UNCHANGED caller_vars

ThreadLeave(t) ==
    /\ threads[t].pc = "returned"
    /\ threads' = [threads EXCEPT ![t] = Idle]
    /\ UNCHANGED <<shared, given>>
    /\ UNCHANGED caller_vars

NextThreads ==
    \E t \in Threads :
        \/ ThreadEnter(t)
        \/ ThreadReadOperand(t)
        \/ ThreadReturn(t)
        \/ ThreadLeave(t)

SpecThreads == InitThreads /\ [][NextThreads]_vars

(* ------------------------------- claims ------------------------------- *)

\* The integers a call's arguments hold.
WidthOf(c) == c.image_size.width.low

PixelOf(c) == c.pixel.value.low

HalfFovTan(c) == Tan(HalfAngle(c.fov))

\* C1: pixel_tan_by_pixel_2_tan_clipped returns exactly 0 when
\* |pixel - half_width| < clipping_threshold * half_width (strictly), and in
\* every other case exactly what pixel_tan_by_pixel_2_tan returns for the
\* same pixel, image size and pixel_2_tan.
C1_Clipping ==
    call.fn = "pixel_tan_by_pixel_2_tan_clipped" =>
        IF AbsInt(2 * PixelOf(call) - WidthOf(call)) * call.clipping_threshold.d
               < call.clipping_threshold.n * WidthOf(call)
        THEN call.ret = Zero
        ELSE call.ret = pixel_tan_by_pixel_2_tan(call.pixel, call.image_size,
                                                 call.pixel_2_tan)

\* A pixel exactly on the edge of the dead zone, which is not clipped.
C1_Witness ==
    /\ call.fn = "pixel_tan_by_pixel_2_tan_clipped"
    /\ call.clipping_threshold.n > 0
    /\ AbsInt(2 * PixelOf(call) - WidthOf(call)) * call.clipping_threshold.d
           = call.clipping_threshold.n * WidthOf(call)
    /\ call.ret # Zero

\* C2: FOV round trip: with width > 0, tan(fov/2) > 0 and 0 < p < width,
\* tan_2_pixel_by_fov of the tangent of pixel_tan_from_fov(PixelIndex{p})
\* returns a pixel whose value differs from p by at most 1.
C2_RoundTrip ==
    (/\ call.fn = "tan_2_pixel_by_fov"
     /\ origin.fn = "pixel_tan_from_fov"
     /\ WidthOf(origin) > 0
     /\ Lt(Zero, HalfFovTan(origin))
     /\ 0 < PixelOf(origin)
     /\ PixelOf(origin) < WidthOf(origin))
    => /\ call.ret.value.carry = 0
       /\ AbsInt(call.ret.value.low - PixelOf(origin)) <= 1

C2_Witness ==
    /\ call.fn = "tan_2_pixel_by_fov"
    /\ origin.fn = "pixel_tan_from_fov"
    /\ WidthOf(origin) = 3
    /\ Lt(Zero, HalfFovTan(origin))
    /\ PixelOf(origin) = 2
    /\ call.pixel_tan # Zero
    /\ call.ret.value = U64Of(2)

\* C3: with width > 0 the tangent of the angle pixel_tan_from_fov returns is
\* (pixel.value / half_width - 1) * tan(fov/2): +tan(fov/2) at
\* pixel.value = width, -tan(fov/2) at 0, and 0.5 * tan(fov/2) three
\* quarters of the way across.
C3_Linear ==
    (call.fn = "pixel_tan_from_fov" /\ WidthOf(call) > 0) =>
        /\ Tan(call.ret) = Mul(Frac(2 * PixelOf(call) - WidthOf(call), WidthOf(call)),
                               HalfFovTan(call))
        /\ PixelOf(call) = WidthOf(call) => Tan(call.ret) = HalfFovTan(call)
        /\ PixelOf(call) = 0 => Tan(call.ret) = Neg(HalfFovTan(call))
        /\ 4 * PixelOf(call) = 3 * WidthOf(call)
               => Tan(call.ret) = Mul(Frac(1, 2), HalfFovTan(call))

C3_Witness ==
    /\ call.fn = "pixel_tan_from_fov"
    /\ WidthOf(call) > 0
    /\ 4 * PixelOf(call) = 3 * WidthOf(call)
    /\ HalfFovTan(call) # Zero
    /\ Tan(call.ret) = Mul(Frac(1, 2), HalfFovTan(call))

\* C4 as stated: with width > 0, pixel_tan_from_fov of the pixel whose
\* unsigned integer value is size.width/2 returns an angle whose tangent is 0.
C4_CenterAnyWidth ==
    (/\ call.fn = "pixel_tan_from_fov"
     /\ WidthOf(call) > 0
     /\ PixelOf(call) = WidthOf(call) \div 2)
    => Tan(call.ret) = Zero

\* C4, amended: with an even width > 0, pixel_tan_from_fov of the pixel
\* whose value is size.width/2 returns an angle whose tangent is 0.
C4_CenterEvenWidth ==
    (/\ call.fn = "pixel_tan_from_fov"
     /\ WidthOf(call) > 0
     /\ WidthOf(call) % 2 = 0
     /\ PixelOf(call) = WidthOf(call) \div 2)
    => Tan(call.ret) = Zero

C4_Witness ==
    /\ call.fn = "pixel_tan_from_fov"
    /\ WidthOf(call) = 4
    /\ PixelOf(call) = 2
    /\ HalfFovTan(call) # Zero
    /\ Tan(call.ret) = Zero

\* C5: symmetry: with width > 0 and two pixels p1, p2 in [0, width] with
\* p1 + p2 = width, the tangents of pixel_tan_from_fov(p1) and
\* pixel_tan_from_fov(p2) are negatives of each other.
C5_Symmetry ==
    (/\ call.fn = "pixel_tan_from_fov"
     /\ origin.fn = "pixel_tan_from_fov"
     /\ call.image_size = origin.image_size
     /\ call.fov = origin.fov
     /\ WidthOf(call) > 0
     /\ PixelOf(call) + PixelOf(origin) = WidthOf(call))
    => Tan(call.ret) = Neg(Tan(origin.ret))

C5_Witness ==
    /\ call.fn = "pixel_tan_from_fov"
    /\ origin.fn = "pixel_tan_from_fov"
    /\ call.image_size = origin.image_size
    /\ call.fov = origin.fov
    /\ WidthOf(call) = 4
    /\ PixelOf(origin) = 1
    /\ PixelOf(call) = 3
    /\ Lt(Zero, Tan(call.ret))
    /\ Tan(call.ret) = Neg(Tan(origin.ret))

\* The raw coordinate t / pixel_2_tan + half_width of an inverse linear call.
RawCoordinate(t, c) ==
    Add(Div(t, c.pixel_2_tan), Frac(WidthOf(c), 2))

\* C6: rounding toggle: with pixel_2_tan != 0 and raw coordinate v >= 0,
\* tan_2_pixel_by_pixel_2_tan returns v rounded to the nearest integer
\* (halves away from zero) when round_back is true, and v truncated toward
\* zero when it is false.
C6_RoundingToggle ==
    (/\ call.fn = "tan_2_pixel_by_pixel_2_tan"
     /\ call.pixel_2_tan # Zero
     /\ ~Lt(RawCoordinate(call.pixel_tan.x, call), Zero))
    => LET v == RawCoordinate(call.pixel_tan.x, call)
           r == Frac(call.ret.value.low, 1)
       IN  /\ call.ret.value.carry = 0
           /\ IF call.round_back
              THEN /\ ~Lt(Frac(1, 2), Abs(Sub(v, r)))
                   /\ Abs(Sub(v, r)) = Frac(1, 2) => Lt(v, r)
              ELSE /\ ~Lt(v, r)
                   /\ Lt(v, Add(r, One))

\* A raw coordinate ending in .5 that round_back = false truncates.
C6_Witness ==
    /\ call.fn = "tan_2_pixel_by_pixel_2_tan"
    /\ call.pixel_2_tan # Zero
    /\ ~call.round_back
    /\ call.ret.value.carry = 0
    /\ call.ret.value.low > 0
    /\ Sub(RawCoordinate(call.pixel_tan.x, call), Frac(call.ret.value.low, 1))
           = Frac(1, 2)

\* C7: a zero tangent maps to the exact center pixel: with an even width,
\* tan_2_pixel_by_fov(0, size, fov) with tan(fov/2) != 0 and
\* angle_tan_to_pixel(Radians{0}, size, k) with k != 0 both return the pixel
\* whose value is width/2.
C7_ZeroTangentCenter ==
    /\ (/\ call.fn = "tan_2_pixel_by_fov"
        /\ call.pixel_tan = Zero
        /\ WidthOf(call) % 2 = 0
        /\ HalfFovTan(call) # Zero)
       => call.ret.value = U64Of(WidthOf(call) \div 2)
    /\ (/\ call.fn = "angle_tan_to_pixel"
        /\ call.angle_tan = Radians(Zero)
        /\ WidthOf(call) % 2 = 0
        /\ call.pixel_2_tan # Zero)
       => call.ret.value = U64Of(WidthOf(call) \div 2)

C7_Witness ==
    /\ call.fn = "tan_2_pixel_by_fov"
    /\ origin = NoCall
    /\ call.pixel_tan = Zero
    /\ WidthOf(call) = 4
    /\ HalfFovTan(call) # Zero
    /\ call.ret.value = U64Of(2)

\* C8: angle_tan_to_pixel and tan_2_pixel_by_pixel_2_tan use the same
\* inverse formula: with pixel_2_tan != 0, angle_tan_to_pixel(a, size, k)
\* returns the same pixel as tan_2_pixel_by_pixel_2_tan(a, size, k, true),
\* namely round(a / k + half_width).
C8_SameInverse ==
    (/\ call.fn = "tan_2_pixel_by_pixel_2_tan"
     /\ origin.fn = "angle_tan_to_pixel"
     /\ origin.pixel_2_tan # Zero)
    => /\ call.ret = origin.ret
       /\ origin.ret.value
              = U64Of(TruncInt(Round(RawCoordinate(origin.angle_tan.x, origin))))

\* The value of r modulo 2^64, for an integer r above -2^64.
Mod2_64(r) == IF r < 0 THEN U64(1, r) ELSE U64Of(r)

\* C9: negative pixel coordinates wrap: when
\* r = round((pixel_tan / tan(fov/2)) * half_width + half_width) is a
\* negative integer, tan_2_pixel_by_fov returns the PixelIndex whose value
\* is r modulo 2^64, and when r >= 0 it returns exactly r.
C9_NegativeWraps ==
    (/\ call.fn = "tan_2_pixel_by_fov"
     /\ IsFinite(call.pixel_tan)
     /\ HalfFovTan(call) # Zero)
    => LET hw == Frac(WidthOf(call), 2)
           r == TruncInt(Round(Add(Mul(Div(call.pixel_tan, HalfFovTan(call)), hw), hw)))
       IN  call.ret.value = Mod2_64(r)

\* C10 as stated: pixel_tan_by_pixel_2_tan agrees with the legacy
\* pixel_tan_by_pixel_2_tan_old, which receives half_width() through its
\* integer half_image_size parameter, for every pixel, image size and
\* pixel_2_tan.
C10_AgreesWithLegacy ==
    (/\ call.fn = "pixel_tan_by_pixel_2_tan_old"
     /\ origin.fn = "pixel_tan_by_pixel_2_tan")
    => call.ret = origin.ret

\* C10, amended: the two agree for every pixel, every image size with an
\* even width and every pixel_2_tan.
C10_AgreesWithLegacyEvenWidth ==
    (/\ call.fn = "pixel_tan_by_pixel_2_tan_old"
     /\ origin.fn = "pixel_tan_by_pixel_2_tan"
     /\ WidthOf(origin) % 2 = 0)
    => call.ret = origin.ret

C10_Witness ==
    /\ call.fn = "pixel_tan_by_pixel_2_tan_old"
    /\ origin.fn = "pixel_tan_by_pixel_2_tan"
    /\ WidthOf(origin) = 4
    /\ PixelOf(origin) = 3
    /\ origin.pixel_2_tan # Zero
    /\ call.ret = origin.ret
    /\ call.ret # Zero

\* C11: with width > 0 and 0 <= value <= width, PixelIndex.normalized(size)
\* equals value / half_width - 1 and lies in [-1, 1]; it is -1 at value 0,
\* 0 at value = half_width and +1 at value = width.
C11_NormalizedRange ==
    (/\ call.fn = "normalized"
     /\ WidthOf(call) > 0
     /\ PixelOf(call) <= WidthOf(call))
    => /\ call.ret = Sub(Frac(2 * PixelOf(call), WidthOf(call)), One)
       /\ ~Lt(call.ret, Neg(One))
       /\ ~Lt(One, call.ret)
       /\ PixelOf(call) = 0 => call.ret = Neg(One)
       /\ 2 * PixelOf(call) = WidthOf(call) => call.ret = Zero
       /\ PixelOf(call) = WidthOf(call) => call.ret = One

C11_Witness ==
    /\ call.fn = "normalized"
    /\ WidthOf(call) = 3
    /\ PixelOf(call) = 3
    /\ call.ret = One

\* C12: half_width() equals width/2 and half_height() equals height/2 as
\* exact fractional values (an odd count gives a value ending in .5), each
\* depends only on its own field, a count of 0 gives 0, and a
\* default-constructed ImageSize has width = height = 0.
C12_HalfSizes ==
    /\ call.fn = "half_width" =>
           /\ call.ret = Frac(call.image_size.width.low, 2)
           /\ call.image_size.width.low % 2 = 1 => call.ret.d = 2
           /\ call.image_size.width.low = 0 => call.ret = Zero
    /\ call.fn = "half_height" =>
           /\ call.ret = Frac(call.image_size.height.low, 2)
           /\ call.image_size.height.low % 2 = 1 => call.ret.d = 2
           /\ call.image_size.height.low = 0 => call.ret = Zero
    /\ call.fn = "ImageSize" =>
           /\ call.image_size.width = U64Of(0)
           /\ call.image_size.height = U64Of(0)
    /\ (call.fn \in {"half_width", "half_height"} /\ origin.fn = "ImageSize")
           => call.ret = Zero

\* An odd width whose half ends in .5, with a height that differs from it.
C12_Witness ==
    /\ call.fn = "half_width"
    /\ call.image_size.width.low = 3
    /\ call.image_size.height.low = 0
    /\ call.ret = Frac(3, 2)

\* C15: the linear round trip is exact: with pixel_2_tan != 0, converting a
\* pixel p to a tangent with pixel_tan_by_pixel_2_tan and back with
\* angle_tan_to_pixel, or with tan_2_pixel_by_pixel_2_tan under either
\* round_back, returns a pixel whose value is exactly p.
C15_LinearRoundTrip ==
    (/\ call.fn \in {"angle_tan_to_pixel", "tan_2_pixel_by_pixel_2_tan"}
     /\ origin.fn = "pixel_tan_by_pixel_2_tan"
     /\ origin.pixel_2_tan # Zero)
    => call.ret = origin.pixel

\* A pixel off the center of an odd width, back through the truncating call.
C15_Witness ==
    /\ call.fn = "tan_2_pixel_by_pixel_2_tan"
    /\ origin.fn = "pixel_tan_by_pixel_2_tan"
    /\ ~call.round_back
    /\ origin.pixel_2_tan = Frac(1, 2)
    /\ WidthOf(origin) = 3
    /\ PixelOf(origin) = 1
    /\ call.pixel_tan = Radians(Frac(-1, 4))
    /\ call.ret.value = U64Of(1)

\* C16: dead-zone gap: with clipping_threshold >= 0 the result of
\* pixel_tan_by_pixel_2_tan_clipped is exactly 0 or has magnitude at least
\* clipping_threshold * half_width * |pixel_2_tan|; and with
\* clipping_threshold <= 0 nothing is clipped: the result equals
\* pixel_tan_by_pixel_2_tan for every input.
C16_DeadZoneGap ==
    call.fn = "pixel_tan_by_pixel_2_tan_clipped" =>
        LET gap == Mul(Mul(call.clipping_threshold, Frac(WidthOf(call), 2)),
                       Abs(call.pixel_2_tan))
        IN  /\ ~Lt(call.clipping_threshold, Zero)
                   => (call.ret = Zero \/ ~Lt(Abs(call.ret), gap))
            /\ ~Lt(Zero, call.clipping_threshold)
                   => call.ret = pixel_tan_by_pixel_2_tan(call.pixel, call.image_size,
                                                          call.pixel_2_tan)

\* A result right at the gap: the smallest magnitude that is not clipped.
C16_Witness ==
    /\ call.fn = "pixel_tan_by_pixel_2_tan_clipped"
    /\ Lt(Zero, call.clipping_threshold)
    /\ call.ret # Zero
    /\ Abs(call.ret) = Mul(Mul(call.clipping_threshold, Frac(WidthOf(call), 2)),
                           Abs(call.pixel_2_tan))

\* The arguments of a call: the call without what it returned.
Arguments(c) == [c EXCEPT !.ret = Zero]

\* C13: the conversion functions are stateless and deterministic: a call
\* with the same arguments as an earlier call returns the same result as
\* that call, and the argument values are the ones that were passed.
C13_Deterministic ==
    (/\ call.fn \in Conversions
     /\ origin.fn = call.fn
     /\ Arguments(origin) = Arguments(call))
    => call.ret = origin.ret

\* What the call a thread has returned from returns when it runs alone on
\* the shared values as they were given.
AloneReturns(th) ==
    Returns(JobOn(given, th.fn, th.round_back, Operand(given, th.fn)))

====
